---------------------------- MODULE Spec2Model ----------------------------
(***************************************************************************)
(* A model of the preview engine of vscode-restructuredtext,               *)
(* src/preview/rstEngine.ts (class RSTEngine).                             *)
(*                                                                         *)
(* Strings are sequences of one-character strings, so that lastIndexOf,    *)
(* substring, the path functions and the regular expression of fixLinks    *)
(* are computed as the code computes them.  In HTML documents a few fixed  *)
(* multi-character texts ("src", "href", "http://", the fixed parts of the *)
(* status pages) are single elements; no operator looks inside them.       *)
(***************************************************************************)
EXTENDS Integers, Sequences, FiniteSets, TLC

(***************************************************************************)
(* JavaScript string primitives used by compile() and fixLinks().          *)
(***************************************************************************)
Min(a, b) ==
    IF a < b THEN a ELSE b

Max(a, b) ==
    IF a > b THEN a ELSE b

RECURSIVE LastIndexFrom(_, _, _)
LastIndexFrom(s, c, i) ==
    IF i = 0 THEN -1
    ELSE IF s[i] = c THEN i - 1
    ELSE LastIndexFrom(s, c, i - 1)

\* String.prototype.lastIndexOf: the 0-based index of the last c, -1 if none.
lastIndexOf(s, c) ==
    LastIndexFrom(s, c, Len(s))

RECURSIVE IndexFrom(_, _, _)
IndexFrom(s, c, i) ==
    IF i > Len(s) THEN -1
    ELSE IF s[i] = c THEN i - 1
    ELSE IndexFrom(s, c, i + 1)

\* String.prototype.indexOf: the 0-based index of the first c, -1 if none.
indexOf(s, c) ==
    IndexFrom(s, c, 1)

\* String.prototype.substring(a, b): arguments below 0 count as 0, above the
\* length as the length, and are swapped when a > b.
substring(s, a, b) ==
    LET ca == Max(0, Min(a, Len(s)))
        cb == Max(0, Min(b, Len(s)))
    IN  SubSeq(s, Min(ca, cb) + 1, Max(ca, cb))

(***************************************************************************)
(* Node's path module, POSIX flavour, as compile() and fixLinks() use it.  *)
(***************************************************************************)
RECURSIVE SplitAcc(_, _, _, _)
SplitAcc(s, i, cur, acc) ==
    IF i > Len(s) THEN (IF cur = <<>> THEN acc ELSE Append(acc, cur))
    ELSE IF s[i] = "/"
         THEN SplitAcc(s, i + 1, <<>>, IF cur = <<>> THEN acc ELSE Append(acc, cur))
         ELSE SplitAcc(s, i + 1, Append(cur, s[i]), acc)

\* The non-empty components of a path string.
Split(s) ==
    SplitAcc(s, 1, <<>>, <<>>)

RECURSIVE Render(_)
\* Components joined by "/" (no leading slash).
Render(comps) ==
    IF comps = <<>> THEN <<>>
    ELSE IF Len(comps) = 1 THEN comps[1]
    ELSE comps[1] \o <<"/">> \o Render(Tail(comps))

RECURSIVE NormAcc(_, _, _)
NormAcc(comps, abs, acc) ==
    IF comps = <<>> THEN acc
    ELSE LET c == Head(comps)
             rest == Tail(comps)
         IN  IF c = <<".">> THEN NormAcc(rest, abs, acc)
             ELSE IF c = <<".", ".">>
                  THEN IF acc # <<>> /\ acc[Len(acc)] # <<".", ".">>
                       THEN NormAcc(rest, abs, SubSeq(acc, 1, Len(acc) - 1))
                       ELSE IF abs THEN NormAcc(rest, abs, acc)
                       ELSE NormAcc(rest, abs, Append(acc, c))
                  ELSE NormAcc(rest, abs, Append(acc, c))

\* normalizeString: "." dropped, ".." resolved (kept at the front of a
\* relative path, dropped at the root of an absolute one).
NormComps(comps, abs) ==
    NormAcc(comps, abs, <<>>)

IsAbsolute(s) ==
    s # <<>> /\ s[1] = "/"

\* path.normalize
normalize(s) ==
    IF s = <<>> THEN <<".">>
    ELSE LET abs == IsAbsolute(s)
             trailing == s[Len(s)] = "/"
             body == Render(NormComps(Split(s), abs))
             body2 == IF body = <<>> /\ ~abs THEN <<".">> ELSE body
             body3 == IF body2 # <<>> /\ trailing THEN body2 \o <<"/">> ELSE body2
         IN  IF abs THEN <<"/">> \o body3 ELSE body3

RECURSIVE JoinParts(_)
JoinParts(parts) ==
    IF parts = <<>> THEN <<>>
    ELSE LET rest == JoinParts(Tail(parts))
         IN  IF Head(parts) = <<>> THEN rest
             ELSE IF rest = <<>> THEN Head(parts)
             ELSE Head(parts) \o <<"/">> \o rest

\* path.join(...parts): the non-empty parts joined by "/", normalized.
join(parts) ==
    LET joined == JoinParts(parts)
    IN  IF joined = <<>> THEN <<".">> ELSE normalize(joined)

\* path.resolve(p) in working directory cwd: absolute, normalized, no
\* trailing slash; as a sequence of components.
ResolveComps(p, cwd) ==
    IF IsAbsolute(p) THEN NormComps(Split(p), TRUE)
    ELSE NormComps(Split(cwd) \o Split(p), TRUE)

RECURSIVE CommonLen(_, _)
CommonLen(a, b) ==
    IF a = <<>> \/ b = <<>> THEN 0
    ELSE IF Head(a) = Head(b) THEN 1 + CommonLen(Tail(a), Tail(b))
    ELSE 0

\* path.relative(from, to)
relative(from, to, cwd) ==
    LET f == ResolveComps(from, cwd)
        t == ResolveComps(to, cwd)
        k == CommonLen(f, t)
        ups == [i \in 1..(Len(f) - k) |-> <<".", ".">>]
    IN  Render(ups \o SubSeq(t, k + 1, Len(t)))

RECURSIVE StripTrailingSlashes(_)
StripTrailingSlashes(s) ==
    IF s # <<>> /\ s[Len(s)] = "/"
    THEN StripTrailingSlashes(SubSeq(s, 1, Len(s) - 1))
    ELSE s

\* path.dirname: the text before the last "/" that is followed by a
\* component (the character at index 0 is never examined).
dirname(s) ==
    IF s = <<>> THEN <<".">>
    ELSE LET t == StripTrailingSlashes(s)
             e == lastIndexOf(t, "/")
         IN  IF e <= 0 THEN (IF IsAbsolute(s) THEN <<"/">> ELSE <<".">>)
             ELSE IF IsAbsolute(s) /\ e = 1 THEN <<"/", "/">>
             ELSE substring(t, 0, e)

\* path.basename
basename(s) ==
    LET t == StripTrailingSlashes(s)
    IN  substring(t, lastIndexOf(t, "/") + 1, Len(t))

(***************************************************************************)
(* Output path resolution: compile(), lines 63-70.                         *)
(***************************************************************************)
HtmlExt ==
    <<".", "h", "t", "m", "l">>

\* A bug the resolver could have: cutting at the first "." instead of the last.
HtmlPathFirstDot(fsPath, confPyDirectory, output, wd) ==
    LET whole == substring(fsPath, 0, indexOf(fsPath, ".")) \o HtmlExt
    IN  join(<<confPyDirectory,
               relative(confPyDirectory, output, wd),
               relative(confPyDirectory, dirname(whole), wd),
               basename(whole)>>)

\* htmlPath as compile() computes it from uri.fsPath, confPyDirectory and
\* esbonio.sphinxConfig.buildDir; wd is the process's working directory,
\* which path.relative resolves relative paths against.
HtmlPath(fsPath, confPyDirectory, output, wd) ==
    LET ext == lastIndexOf(fsPath, ".")
        whole == substring(fsPath, 0, ext) \o HtmlExt
        source == dirname(whole)
        sourceRelative == relative(confPyDirectory, source, wd)
        outputRelative == relative(confPyDirectory, output, wd)
    IN  join(<<confPyDirectory, outputRelative, sourceRelative, basename(whole)>>)

(***************************************************************************)
(* Link rewriting: fixLinks(), lines 109-130.  A document is a sequence of *)
(* characters in which the attribute names, the schemes and the sandbox    *)
(* prefix are single elements.                                             *)
(***************************************************************************)
DQ ==
    "\""

SQ ==
    "'"

Quotes ==
    {DQ, SQ}

\* String.prototype.toLowerCase on one element.
LowerTok(t) ==
    CASE t = "SRC" -> "src"
      [] t = "HREF" -> "href"
      [] t = "HTTP://" -> "http://"
      [] t = "HTTPS://" -> "https://"
      [] OTHER -> t

toLowerCase(s) ==
    [i \in 1..Len(s) |-> LowerTok(s[i])]

\* The characters of one element, for the path functions.
CharsOf(t) ==
    CASE t = "http://" -> <<"h", "t", "t", "p", ":", "/", "/">>
      [] t = "HTTP://" -> <<"H", "T", "T", "P", ":", "/", "/">>
      [] t = "https://" -> <<"h", "t", "t", "p", "s", ":", "/", "/">>
      [] t = "HTTPS://" -> <<"H", "T", "T", "P", "S", ":", "/", "/">>
      [] t = "src" -> <<"s", "r", "c">>
      [] t = "SRC" -> <<"S", "R", "C">>
      [] t = "href" -> <<"h", "r", "e", "f">>
      [] t = "HREF" -> <<"H", "R", "E", "F">>
      [] OTHER -> <<t>>

RECURSIVE Chars(_)
Chars(s) ==
    IF s = <<>> THEN <<>> ELSE CharsOf(Head(s)) \o Chars(Tail(s))

\* webView.asWebviewUri(vscode.Uri.file(p)).toString(): the host's mapping
\* of an absolute path to a sandbox URI, an injective function of the path.
toSandboxUri(p) ==
    <<"sandbox:/">> \o p

\* The regular expression ((?:src|href)=['"])(.*?)(['"]) with flags gmi,
\* tried at position i: the 1-based index of the closing quote of the match
\* that starts at i, 0 when none starts there.  "." matches no line break,
\* and the lazy (.*?) stops at the first quote of either kind.
RECURSIVE CloseFrom(_, _)
CloseFrom(doc, j) ==
    IF j > Len(doc) THEN 0
    ELSE IF doc[j] \in Quotes THEN j
    ELSE IF doc[j] = "\n" THEN 0
    ELSE CloseFrom(doc, j + 1)

MatchAt(doc, i) ==
    IF /\ i + 3 <= Len(doc)
       /\ LowerTok(doc[i]) \in {"src", "href"}
       /\ doc[i + 1] = "="
       /\ doc[i + 2] \in Quotes
    THEN CloseFrom(doc, i + 3)
    ELSE 0

startsWith(s, t) ==
    s # <<>> /\ s[1] = t

\* The replacer callback of fixLinks, lines 112-128.
Replacer(subString, p1, p2, p3, documentPath) ==
    LET lower == toLowerCase(p2)
    IN  IF startsWith(p2, "#") \/ startsWith(lower, "http://")
               \/ startsWith(lower, "https://")
        THEN subString
        ELSE LET index == indexOf(p2, "?")
                 cut == IF index > -1 THEN substring(p2, 0, index) ELSE p2
                 newPath == join(<<dirname(documentPath), Chars(cut)>>)
             IN  p1 \o toSandboxUri(newPath) \o p3

RECURSIVE ReplaceFrom(_, _, _)
ReplaceFrom(doc, i, documentPath) ==
    IF i > Len(doc) THEN <<>>
    ELSE LET j == MatchAt(doc, i)
         IN  IF j = 0
             THEN <<doc[i]>> \o ReplaceFrom(doc, i + 1, documentPath)
             ELSE Replacer(SubSeq(doc, i, j), SubSeq(doc, i, i + 2),
                           SubSeq(doc, i + 3, j - 1), <<doc[j]>>, documentPath)
                      \o ReplaceFrom(doc, j + 1, documentPath)

\* fixLinks(document, documentPath, webView): String.prototype.replace with
\* the global expression, matches taken left to right without overlap.
fixLinks(document, documentPath) ==
    ReplaceFrom(document, 1, documentPath)

(***************************************************************************)
(* Status pages: errorSnippet, showHelp, showWait.  The fixed text of a    *)
(* page is one element per literal; what is spliced in keeps its own       *)
(* elements.                                                               *)
(***************************************************************************)
\* errorSnippet(error), lines 18-20
errorSnippet(error) ==
    <<"<html><body>">> \o error \o <<"</body></html>">>

\* showHelp(description, error), lines 132-151
showHelp(description, error) ==
    <<"<body><section><article><header><h2>Cannot show preview page.</h2><h4>Description:</h4>">>
        \o description
        \o <<"<h4>Detailed error message</h4><pre>">>
        \o error
        \o <<"</pre><h4>More Information</h4>...troubleshooting.html</pre></header></article></section></body>">>

\* showWait(), lines 153-170
showWait ==
    <<"<body><section><article><header><h2>Esbonio is busy.</h2>...troubleshooting.html</pre></header></article></section></body>">>

\* The page of line 55.
BuildErrorPage ==
    showHelp(<<"<p>Esbonio detected build errors.</p>">>, <<"Not Available">>)

WrongConfCause ==
    "<li>A wrong \"conf.py\" file is selected.</li>"

WrongBuildDirCause ==
    "<li>Wrong value is set on \"esbonio.sphinx.buildDir\".</li>"

\* description of previewPage, lines 91-97
ReadFailureDescription(htmlPath) ==
    <<"<p>Cannot read preview page \"">> \o htmlPath
        \o <<"\".</p><p>Possible causes are,</p><ul>", WrongConfCause,
             WrongBuildDirCause, "</ul>">>

\* [err.name, err.message, err.stack].join('\n'), lines 98-102
ErrorMessage(err) ==
    <<err.name, "\n", err.message, "\n", err.stack>>

(***************************************************************************)
(* The decisions of compile() and previewPage().                           *)
(***************************************************************************)
\* A bug the selector could have: the forced-backend setting is not read.
UsesDocutilsIgnoresSetting(confPyDirectory, name) ==
    confPyDirectory = <<>>

\* The condition of line 24; name is Configuration.getPreviewName().
UsesDocutils(confPyDirectory, name) ==
    confPyDirectory = <<>> \/ name = "docutils"

\* A bug the gate could have: busy is tested before error.
GateReadyFirst(esb) ==
    IF ~esb.ready THEN "wait" ELSE IF esb.error THEN "error" ELSE "go"

\* A bug the gate could have: build errors are not tested.
GateIgnoresError(esb) ==
    IF ~esb.ready THEN "wait" ELSE "go"

\* The readiness gate, lines 54-59: what this.esbonio's flags decide.
Gate(esb) ==
    IF esb.error THEN "error" ELSE IF ~esb.ready THEN "wait" ELSE "go"

\* A bug the loader could have: the content is rewritten whatever fixLinks.
PreviewPageAlwaysRewrites(ok, data, err, htmlPath, fixLinksArg) ==
    IF ok THEN fixLinks(data, htmlPath)
    ELSE showHelp(ReadFailureDescription(htmlPath), ErrorMessage(err))

\* What the callback of fs.readFile resolves the promise with, lines 83-104;
\* ok is (err === null).
PreviewPageResult(ok, data, err, htmlPath, fixLinksArg) ==
    IF ok
    THEN (IF fixLinksArg THEN fixLinks(data, htmlPath) ELSE data)
    ELSE showHelp(ReadFailureDescription(htmlPath), ErrorMessage(err))

(***************************************************************************)
(* State.                                                                  *)
(***************************************************************************)
VARIABLES
    rIn,        \* resolver run: the project layout and source document
    rCwd,       \* resolver run: the process's working directory
    rOut,       \* resolver run: [done, path], the resolved htmlPath
    lDoc,       \* rewriter run: the HTML document, as a sequence of pieces
    lPath,      \* rewriter run: documentPath
    lOut,       \* rewriter run: [done, html], the result of fixLinks
    status,     \* this.status: [isNull, config], config = [isNull, confPyDirectory]
    previewName,\* Configuration.getPreviewName()
    esbonio,    \* this.esbonio: [ready, error, sphinxConfig = [isNull, buildDir]]
    reqs        \* the calls of preview() and compile(), by number

resolveVars ==
    <<rIn, rCwd, rOut>>

linkVars ==
    <<lDoc, lPath, lOut>>

engineVars ==
    <<status, previewName, esbonio, reqs>>

vars ==
    <<rIn, rCwd, rOut, lDoc, lPath, lOut, status, previewName, esbonio, reqs>>

ResolveIdle ==
    /\ rIn = [conf |-> <<>>, sub |-> <<>>, file |-> <<>>, out |-> <<>>]
    /\ rCwd = <<"/">>
    /\ rOut = [done |-> FALSE, path |-> <<>>]

LinksIdle ==
    /\ lDoc = <<>>
    /\ lPath = <<>>
    /\ lOut = [done |-> FALSE, html |-> <<>>]

(***************************************************************************)
(* The engine: calls of preview() and compile() running concurrently on    *)
(* one event loop.  An action is the code between two awaits.              *)
(***************************************************************************)
\* The number of calls in flight or finished.
NReq ==
    2

ReqIds ==
    1..NReq

NullConfig ==
    [isNull |-> TRUE, confPyDirectory |-> <<>>]

ConfigOf(dir) ==
    [isNull |-> FALSE, confPyDirectory |-> dir]

\* uri.fsPath of the documents previewed: one in project /p, one in /q.
DocP ==
    <<"/", "p", "/", "d", "/", "i", ".", "r">>

DocQ ==
    <<"/", "q", "/", "j", ".", "r">>

SourceDocs ==
    {DocP, DocQ}

\* The conf.py directory status.refreshConfig(uri) selects for a document.
ConfDirFor(doc) ==
    IF doc = DocP THEN <<"/", "p">> ELSE <<"/", "q">>

\* confPyDirectory as a caller of compile() may pass it.
ConfPyDirectories ==
    {<<>>, <<"/", "p">>, <<"/", "q">>}

BuildDir ==
    <<"/", "p", "/", "b">>

EsbonioStates ==
    {[ready |-> r, error |-> e, sphinxConfig |-> [isNull |-> FALSE, buildDir |-> BuildDir]] :
        r \in BOOLEAN, e \in BOOLEAN}
    \cup {[ready |-> TRUE, error |-> FALSE, sphinxConfig |-> [isNull |-> TRUE, buildDir |-> <<>>]]}

\* What python.exec resolves with: the renderer's HTML.
RenderedHtml ==
    <<"<img ", "src", "=", DQ, "a", DQ, ">">>

\* Contents of generated files.
FileData ==
    {<<"<a ", "href", "=", DQ, "a", "?", "v", DQ, ">">>, <<"<p>">>}

ReadError ==
    [name |-> "Error", message |-> "ENOENT: no such file or directory", stack |-> "Error: ENOENT at ..."]

NoError ==
    [name |-> "", message |-> "", stack |-> ""]

\* process.cwd() of the extension host.
EngineCwd ==
    <<"/", "w">>

Pending ==
    [kind |-> "pending", html |-> <<>>]

Resolved(html) ==
    [kind |-> "resolved", html |-> html]

Rejected(error) ==
    [kind |-> "rejected", html |-> error]

\* A call not yet made.  gate, fsOps, setting, startConfig, refreshed and
\* read record what the call did, for the properties.
IdleReq ==
    [pc |-> "idle", entry |-> "none", doc |-> <<>>, confPyDirectory |-> <<>>,
     fixLinks |-> FALSE, mode |-> "none", htmlPath |-> <<>>, result |-> Pending,
     gate |-> [read |-> FALSE, ready |-> FALSE, error |-> FALSE],
     fsOps |-> <<>>, setting |-> "", startConfig |-> NullConfig,
     refreshed |-> FALSE,
     read |-> [done |-> FALSE, ok |-> FALSE, data |-> <<>>]]

EngineIdle ==
    /\ status = [isNull |-> TRUE, config |-> NullConfig]
    /\ previewName = "sphinx"
    /\ esbonio = [ready |-> FALSE, error |-> FALSE,
                  sphinxConfig |-> [isNull |-> FALSE, buildDir |-> BuildDir]]
    /\ reqs = [r \in ReqIds |-> IdleReq]

\* The promise of the call settles.
Settle(q, result) ==
    [q EXCEPT !.pc = "done", !.result = result]

\* compile() from the gate on, lines 53-71, up to the call of fs.readFile
\* in previewPage (line 83).  esb is this.esbonio as read now.
FromGate(q, esb) ==
    LET g == Gate(esb)
        q1 == [q EXCEPT !.gate = [read |-> TRUE, ready |-> esb.ready, error |-> esb.error]]
    IN  IF g = "error" THEN Settle(q1, Resolved(BuildErrorPage))
        ELSE IF g = "wait" THEN Settle(q1, Resolved(showWait))
        ELSE IF esb.sphinxConfig.isNull
             THEN Settle(q1, Rejected(<<"TypeError: Cannot read properties of undefined (reading 'buildDir')">>))
             ELSE LET htmlPath == HtmlPath(q.doc, q.confPyDirectory,
                                           esb.sphinxConfig.buildDir, EngineCwd)
                  IN  [q1 EXCEPT !.htmlPath = htmlPath,
                                 !.pc = "readFile",
                                 !.fsOps = Append(@, [op |-> "readFile", path |-> htmlPath])]

\* compile() from its first line to its first await or its return, lines
\* 22-59.  name is the preview.name setting, exists what fs.existsSync
\* answers for conf.py, st and esb this.status and this.esbonio.
CompileFromStart(q, confPyDirectory, fixLinksArg, name, exists, st, esb) ==
    LET q0 == [q EXCEPT !.confPyDirectory = confPyDirectory,
                        !.fixLinks = fixLinksArg, !.setting = name]
    IN  IF UsesDocutils(confPyDirectory, name)
        THEN [q0 EXCEPT !.mode = "SingleFile", !.pc = "exec"]
        ELSE LET confFile == join(<<confPyDirectory, <<"c", "o", "n", "f", ".", "p", "y">> >>)
                 q1 == [q0 EXCEPT !.mode = "ProjectBuild",
                                  !.fsOps = Append(@, [op |-> "existsSync", path |-> confFile])]
             IN  IF exists THEN FromGate(q1, esb)
                 ELSE IF st.isNull
                      THEN Settle(q1, Rejected(<<"TypeError: Cannot read properties of null (reading 'reset')">>))
                      ELSE [q1 EXCEPT !.pc = "reset"]

EngineInit ==
    /\ status \in {[isNull |-> n, config |-> NullConfig] : n \in BOOLEAN}
    /\ previewName \in {"sphinx", "docutils"}
    /\ esbonio \in EsbonioStates
    /\ reqs = [r \in ReqIds |-> IdleReq]
    /\ ResolveIdle
    /\ LinksIdle

\* A bug preview() could have: the configuration is refreshed on every call.
PreviewNeedsRefreshAlways(st) ==
    TRUE

\* The test of line 176.
PreviewNeedsRefresh(st) ==
    st.config.isNull

\* preview(doc, webview) is called: lines 172-179 up to the first await.
Preview(r, doc) ==
    /\ reqs[r].pc = "idle"
    /\ \E exists \in BOOLEAN :
        LET q == [reqs[r] EXCEPT !.entry = "preview", !.doc = doc,
                                 !.startConfig = status.config]
        IN  reqs' = [reqs EXCEPT ![r] =
                IF status.isNull
                THEN CompileFromStart(q, <<>>, TRUE, previewName, exists, status, esbonio)
                ELSE IF PreviewNeedsRefresh(status)
                THEN [q EXCEPT !.pc = "refreshConfig"]
                ELSE CompileFromStart(q, status.config.confPyDirectory, TRUE,
                                      previewName, exists, status, esbonio)]
    /\ UNCHANGED <<status, previewName, esbonio, resolveVars, linkVars>>

\* await this.status.refreshConfig(doc.uri) returns or throws (line 177);
\* preview() goes on to line 179 or to its catch clause.
RefreshConfigReturns(r) ==
    /\ reqs[r].pc = "refreshConfig"
    /\ \E outcome \in {"throws", "none", "selected"}, exists \in BOOLEAN :
        LET q == [reqs[r] EXCEPT !.refreshed = TRUE]
            st == IF outcome = "selected"
                  THEN [status EXCEPT !.config = ConfigOf(ConfDirFor(q.doc))]
                  ELSE status
        IN  /\ status' = st
            /\ reqs' = [reqs EXCEPT ![r] =
                 IF outcome = "throws"
                 THEN Settle(q, Resolved(errorSnippet(<<"Error: refreshConfig failed">>)))
                 ELSE IF st.config.isNull
                 THEN Settle(q, Resolved(errorSnippet(
                        <<"TypeError: Cannot read properties of null (reading 'confPyDirectory')">>)))
                 ELSE CompileFromStart(q, st.config.confPyDirectory, TRUE,
                                       previewName, exists, st, esbonio)]
    /\ UNCHANGED <<previewName, esbonio, resolveVars, linkVars>>

\* compile(fileName, uri, confPyDirectory, fixLinks, webview) is called by
\* another part of the extension.
Compile(r, doc, confPyDirectory, fixLinksArg) ==
    /\ reqs[r].pc = "idle"
    /\ \E exists \in BOOLEAN :
        LET q == [reqs[r] EXCEPT !.entry = "compile", !.doc = doc,
                                 !.startConfig = status.config]
        IN  reqs' = [reqs EXCEPT ![r] =
                CompileFromStart(q, confPyDirectory, fixLinksArg, previewName,
                                 exists, status, esbonio)]
    /\ UNCHANGED <<status, previewName, esbonio, resolveVars, linkVars>>

\* await this.python.exec(...) resolves with the renderer's HTML or rejects
\* (lines 32-37).  compile() has no handler, and preview() returns compile's
\* promise without awaiting it (lines 175, 179), so its catch clause does
\* not see the rejection.
ExecReturns(r) ==
    /\ reqs[r].pc = "exec"
    /\ \E ok \in BOOLEAN :
        reqs' = [reqs EXCEPT ![r] =
            IF ok
            THEN Settle(reqs[r], Resolved(RenderedHtml))
            ELSE Settle(reqs[r], Rejected(<<"Error: python exited with an error">>))]
    /\ UNCHANGED <<status, previewName, esbonio, resolveVars, linkVars>>

\* await this.status.reset() returns or throws (line 46); compile() goes on
\* with the same confPyDirectory (lines 48-50) to the gate.
ResetReturns(r) ==
    /\ reqs[r].pc = "reset"
    /\ \E outcome \in {"throws", "keeps", "clears"} :
        /\ status' = IF outcome = "clears" THEN [status EXCEPT !.config = NullConfig]
                     ELSE status
        /\ reqs' = [reqs EXCEPT ![r] =
             IF outcome = "throws"
             THEN Settle(reqs[r], Rejected(<<"Error: reset failed">>))
             ELSE FromGate(reqs[r], esbonio)]
    /\ UNCHANGED <<previewName, esbonio, resolveVars, linkVars>>

\* The callback of fs.readFile runs (lines 83-105).
ReadFileReturns(r) ==
    /\ reqs[r].pc = "readFile"
    /\ \E ok \in BOOLEAN, data \in FileData :
        LET q == reqs[r]
            d == IF ok THEN data ELSE <<>>
            err == IF ok THEN NoError ELSE ReadError
        IN  reqs' = [reqs EXCEPT ![r] =
                Settle([q EXCEPT !.read = [done |-> TRUE, ok |-> ok, data |-> d]],
                       Resolved(PreviewPageResult(ok, d, err, q.htmlPath, q.fixLinks)))]
    /\ UNCHANGED <<status, previewName, esbonio, resolveVars, linkVars>>

\* The build backend changes its state.
EsbonioChanges ==
    /\ \E e \in EsbonioStates \ {esbonio} : esbonio' = e
    /\ UNCHANGED <<status, previewName, reqs, resolveVars, linkVars>>

\* The user changes the preview.name setting.
SettingChanges ==
    /\ previewName' = IF previewName = "docutils" THEN "sphinx" ELSE "docutils"
    /\ UNCHANGED <<status, esbonio, reqs, resolveVars, linkVars>>

Next ==
    \/ \E r \in ReqIds, doc \in SourceDocs : Preview(r, doc)
    \/ \E r \in ReqIds : RefreshConfigReturns(r)
    \/ \E r \in ReqIds, doc \in SourceDocs, c \in ConfPyDirectories, f \in BOOLEAN :
          Compile(r, doc, c, f)
    \/ \E r \in ReqIds : ExecReturns(r)
    \/ \E r \in ReqIds : ResetReturns(r)
    \/ \E r \in ReqIds : ReadFileReturns(r)
    \/ EsbonioChanges
    \/ SettingChanges

Init ==
    EngineInit

Spec ==
    Init /\ [][Next]_vars

(***************************************************************************)
(* Properties of the engine.                                               *)
(***************************************************************************)
\* sub occurs in s as a run of consecutive elements.
IsInfix(sub, s) ==
    \E k \in 0..(Len(s) - Len(sub)) : SubSeq(s, k + 1, k + Len(sub)) = sub

\* The fs.readFile calls a request has made.
ReadAttempts(q) ==
    {k \in 1..Len(q.fsOps) : q.fsOps[k].op = "readFile"}

\* The request has neither resolved an output path nor read a generated file.
NothingResolvedOrRead(q) ==
    /\ q.htmlPath = <<>>
    /\ ReadAttempts(q) = {}
    /\ ~q.read.done

\* C1: the promise preview() returns is never rejected, whatever stage fails.
C1_PreviewNeverRejects ==
    \A r \in ReqIds :
        reqs[r].entry = "preview" => reqs[r].result.kind # "rejected"

\* C2: in ProjectBuild mode the flags the request reads at the gate decide
\* its outcome: error gives the build-error page, also when ready is false;
\* otherwise not ready gives the wait page; in both cases no output path is
\* resolved and no generated file read.  Only with ready and no error does
\* the request resolve the output path and read the generated file.
C2_GateDecidesOutcome ==
    \A r \in ReqIds :
        LET q == reqs[r]
        IN  (q.mode = "ProjectBuild" /\ q.gate.read) =>
              /\ q.gate.error =>
                    /\ q.pc = "done"
                    /\ q.result = Resolved(BuildErrorPage)
                    /\ NothingResolvedOrRead(q)
              /\ (~q.gate.error /\ ~q.gate.ready) =>
                    /\ q.pc = "done"
                    /\ q.result = Resolved(showWait)
                    /\ NothingResolvedOrRead(q)
              /\ (q.gate.ready /\ ~q.gate.error) =>
                    \/ q.result.kind = "rejected"
                    \/ /\ q.htmlPath # <<>>
                       /\ Cardinality(ReadAttempts(q)) = 1

\* C2 witness: a request that read error = true and ready = false has ended
\* with the build-error page.
C2_Witness ==
    \E r \in ReqIds :
        /\ reqs[r].mode = "ProjectBuild"
        /\ reqs[r].gate = [read |-> TRUE, ready |-> FALSE, error |-> TRUE]
        /\ reqs[r].result = Resolved(BuildErrorPage)

\* The two backend states C3 is about, as the request read them.
BusyOrFailed(q) ==
    /\ q.mode = "ProjectBuild"
    /\ q.gate.read
    /\ q.gate.ready = q.gate.error

PageFor(q) ==
    IF q.gate.error THEN BuildErrorPage ELSE showWait

\* C3 as stated: with {ready: false, error: false} the wait page, with
\* {ready: true, error: true} the error page, and no filesystem access of
\* any kind during the request.
C3_NoFilesystemAccessAtAll ==
    \A r \in ReqIds :
        BusyOrFailed(reqs[r]) =>
            /\ reqs[r].result = Resolved(PageFor(reqs[r]))
            /\ reqs[r].fsOps = <<>>

\* C3 as amended: with {ready: false, error: false} the wait page, with
\* {ready: true, error: true} the error page; the request's one filesystem
\* access is the fs.existsSync of conf.py in confPyDirectory that compile()
\* makes before the gate, and no generated file is resolved or read.
C3_OnlyConfPyIsProbed ==
    \A r \in ReqIds :
        BusyOrFailed(reqs[r]) =>
            /\ reqs[r].pc = "done"
            /\ reqs[r].result = Resolved(PageFor(reqs[r]))
            /\ NothingResolvedOrRead(reqs[r])
            /\ reqs[r].fsOps =
                 <<[op |-> "existsSync",
                    path |-> reqs[r].confPyDirectory \o <<"/", "c", "o", "n", "f", ".", "p", "y">>]>>

\* C3 witness: a request that read {ready: true, error: true} has returned
\* the error page after probing conf.py.
C3_Witness ==
    \E r \in ReqIds :
        /\ reqs[r].mode = "ProjectBuild"
        /\ reqs[r].gate = [read |-> TRUE, ready |-> TRUE, error |-> TRUE]
        /\ reqs[r].result = Resolved(BuildErrorPage)
        /\ Len(reqs[r].fsOps) = 1

\* C7: compile() takes the SingleFile path exactly when confPyDirectory is
\* empty or preview.name is "docutils", the ProjectBuild path otherwise; on
\* the SingleFile path the result is the renderer's output unchanged, and
\* the request reads no backend state, resolves and reads no generated file
\* and rewrites no link, also when fixLinks is true.
C7_BackendSelector ==
    \A r \in ReqIds :
        LET q == reqs[r]
            single == q.confPyDirectory = <<>> \/ q.setting = "docutils"
        IN  q.mode # "none" =>
              /\ q.mode = (IF single THEN "SingleFile" ELSE "ProjectBuild")
              /\ q.mode = "SingleFile" =>
                    /\ ~q.gate.read
                    /\ q.fsOps = <<>>
                    /\ NothingResolvedOrRead(q)
                    /\ q.result.kind = "resolved" => q.result.html = RenderedHtml

\* C7 witness: a call with a project directory and fixLinks = true, forced
\* to docutils by the setting, has returned the renderer's output.
C7_Witness ==
    \E r \in ReqIds :
        /\ reqs[r].mode = "SingleFile"
        /\ reqs[r].confPyDirectory # <<>>
        /\ reqs[r].setting = "docutils"
        /\ reqs[r].fixLinks
        /\ reqs[r].result = Resolved(RenderedHtml)
        /\ fixLinks(RenderedHtml, reqs[r].doc) # RenderedHtml

\* C8: the loader reads the resolved path once.  A failed read resolves the
\* promise with the cannot-read page, which holds the failed path, the two
\* causes and the error's name, message and stack joined by newlines; a
\* successful read resolves it with the content, passed through fixLinks
\* exactly when fixLinks is true.
C8_DocumentLoader ==
    \A r \in ReqIds :
        LET q == reqs[r]
        IN  /\ Cardinality(ReadAttempts(q)) <= 1
            /\ \A k \in ReadAttempts(q) : q.fsOps[k].path = q.htmlPath
            /\ q.read.done =>
                  /\ Cardinality(ReadAttempts(q)) = 1
                  /\ q.pc = "done"
                  /\ q.result.kind = "resolved"
                  /\ ~q.read.ok =>
                        /\ IsInfix(<<"<p>Cannot read preview page \"">> \o q.htmlPath, q.result.html)
                        /\ IsInfix(<<WrongConfCause, WrongBuildDirCause>>, q.result.html)
                        /\ IsInfix(<<ReadError.name, "\n", ReadError.message, "\n",
                                     ReadError.stack>>, q.result.html)
                  /\ (q.read.ok /\ q.fixLinks) =>
                        q.result.html = fixLinks(q.read.data, q.htmlPath)
                  /\ (q.read.ok /\ ~q.fixLinks) => q.result.html = q.read.data

\* C8 witness: a failed read has ended in the cannot-read page.
C8_Witness ==
    \E r \in ReqIds :
        /\ reqs[r].read.done
        /\ ~reqs[r].read.ok
        /\ reqs[r].result.kind = "resolved"
        /\ IsInfix(reqs[r].htmlPath, reqs[r].result.html)

\* C9 as stated: the project config directory preview() uses for a document
\* is the one of that document, whatever was previewed before or meanwhile.
C9_ConfigDirOfOwnDocument ==
    \A r \in ReqIds :
        (reqs[r].entry = "preview" /\ ~status.isNull /\ reqs[r].mode # "none")
            => reqs[r].confPyDirectory = ConfDirFor(reqs[r].doc)

\* C9 as amended: preview() refreshes the configuration only when
\* status.config is null; a call that finds a configuration cached there
\* uses its directory, whatever its own document, and does not refresh.
C9_CachedConfigIsReused ==
    \A r \in ReqIds :
        LET q == reqs[r]
        IN  (q.entry = "preview" /\ ~status.isNull) =>
              /\ q.refreshed => q.startConfig.isNull
              /\ ~q.startConfig.isNull =>
                    /\ q.pc # "refreshConfig"
                    /\ q.mode # "none"
                    /\ q.confPyDirectory = q.startConfig.confPyDirectory

\* C9 witness: a preview has run with the directory cached for another
\* document.
C9_Witness ==
    \E r \in ReqIds :
        /\ reqs[r].entry = "preview"
        /\ reqs[r].pc = "done"
        /\ ~reqs[r].startConfig.isNull
        /\ reqs[r].confPyDirectory # ConfDirFor(reqs[r].doc)

(***************************************************************************)
(* The resolver on its own: every layout within the bounds.                *)
(***************************************************************************)
\* The longest chain of directories between configDir and the source file.
MaxDepth ==
    2

\* An absolute path string from its components.
AbsPath(comps) ==
    <<"/">> \o Render(comps)

DirNames ==
    {<<"d">>, <<"v", ".", "1">>}

FileNames ==
    {<<"i", ".", "r">>, <<"a", ".", "b", ".", "r">>, <<".", "r">>, <<"i", ".">>,
     <<"i">>}

ConfDirs ==
    {<< <<"p">> >>, << <<"w">>, <<"p">> >>, << <<"p", ".", "x">> >>}

SubDirs ==
    UNION {[1..n -> DirNames] : n \in 0..MaxDepth}

\* Output directories inside configDir, outside it, beside it, configDir
\* itself, and spelled with a trailing slash or a ".." segment.
OutDirsFor(conf) ==
    {AbsPath(conf \o << <<"b">>, <<"h">> >>),
     AbsPath(<< <<"o">> >>),
     AbsPath(SubSeq(conf, 1, Len(conf) - 1) \o << <<"s">> >>),
     AbsPath(conf),
     AbsPath(<< <<"o">> >>) \o <<"/">>,
     AbsPath(<< <<"o">>, <<".", ".">>, <<"q">> >>)}

Cwds ==
    {<<"/", "w">>, <<"/", "p", "/", "d">>, <<"/">>}

\* uri.fsPath of the source document of a resolver run.
SourcePath(in) ==
    AbsPath(in.conf \o in.sub \o <<in.file>>)

ResolveInit ==
    /\ rIn \in {[conf |-> c, sub |-> s, file |-> f, out |-> o] :
                   c \in ConfDirs, s \in SubDirs, f \in FileNames,
                   o \in UNION {OutDirsFor(c2) : c2 \in ConfDirs}}
    /\ rIn.out \in OutDirsFor(rIn.conf)
    /\ rCwd \in Cwds
    /\ rOut = [done |-> FALSE, path |-> <<>>]
    /\ LinksIdle
    /\ EngineIdle

\* One resolution (compile() lines 63-70) of the run's inputs.
ResolvePath ==
    /\ rOut' = [done |-> TRUE,
                path |-> HtmlPath(SourcePath(rIn), AbsPath(rIn.conf), rIn.out, rCwd)]
    /\ UNCHANGED <<rIn, rCwd, linkVars, engineVars>>

\* The host process changes its working directory.
Chdir ==
    /\ \E d \in Cwds \ {rCwd} : rCwd' = d
    /\ UNCHANGED <<rIn, rOut, linkVars, engineVars>>

ResolveNext ==
    \/ ResolvePath
    \/ Chdir

SpecResolve ==
    ResolveInit /\ [][ResolveNext]_vars

HasDot(s) ==
    \E i \in 1..Len(s) : s[i] = "."

\* The file name with its extension (the text from its last ".") removed.
Stem(file) ==
    IF HasDot(file) THEN substring(file, 0, lastIndexOf(file, ".")) ELSE file

\* outputDir / (directory of the source relative to configDir) / name.
Mirrored(in, name) ==
    AbsPath(NormComps(Split(in.out), TRUE) \o in.sub \o <<name>>)

\* C4: for a source document with an extension at or below configDir, the
\* resolved path is outputDir joined with the source's directory relative to
\* configDir and the file name with its extension replaced by .html, whatever
\* the working directory at the time of the call (so resolving again gives
\* the same path).
C4_ResolvedPathMirrorsSource ==
    (rOut.done /\ HasDot(rIn.file))
        => rOut.path = Mirrored(rIn, Stem(rIn.file) \o HtmlExt)

\* C4 witness: the spec's example layout, configDir/_build/html and
\* configDir/docs/index.rst, has been resolved.
C4_Witness ==
    /\ rOut.done
    /\ rIn = [conf |-> << <<"p">> >>, sub |-> << <<"d">> >>,
              file |-> <<"i", ".", "r">>, out |-> <<"/", "p", "/", "b", "/", "h">>]
    /\ rOut.path = <<"/", "p", "/", "b", "/", "h", "/", "d", "/", "i">> \o HtmlExt

\* C10: a file name without "." is the stem as a whole, and a "." in a
\* directory component changes neither the directory nor the file name used:
\* the resolved path is the mirrored directory with <name>.html.
C10_NoExtensionWholeNameIsStem ==
    (rOut.done /\ ~HasDot(rIn.file))
        => rOut.path = Mirrored(rIn, rIn.file \o HtmlExt)

(***************************************************************************)
(* The rewriter on its own: documents built from pieces.  A piece is a     *)
(* text element or an attribute name=q value q whose value, as HTML reads  *)
(* it, runs to the next quote of the kind q that opened it.                *)
(***************************************************************************)
\* The most pieces in a document.
MaxPieces ==
    2

\* The most elements in an attribute value.
MaxValueLen ==
    2

OtherQuote(q) ==
    IF q = DQ THEN SQ ELSE DQ

ValueTokens(q) ==
    {"a", "#", "http://", "HTTPS://", "?", OtherQuote(q)}

\* Values that hold the text of a further attribute between quotes of the
\* other kind, as in href="#'src='a'".
NestedValues(q) ==
    {<<"#", OtherQuote(q), "src", "=", OtherQuote(q), "a", OtherQuote(q)>>}

ValuesFor(q) ==
    UNION {[1..n -> ValueTokens(q)] : n \in 0..MaxValueLen} \cup NestedValues(q)

TextPieces ==
    {[kind |-> "text", name |-> t, q |-> "", value |-> <<>>] :
        t \in {"a", "\n", "<p ", "="}}

AttrPieces ==
    UNION {{[kind |-> "attr", name |-> n, q |-> q, value |-> v] :
               n \in {"src", "HREF"}, v \in ValuesFor(q)} : q \in Quotes}

Pieces ==
    TextPieces \cup AttrPieces

DocumentPaths ==
    {<<"/", "x", "/", "y", ".", "h">>, <<"/", "y", ".", "h">>}

\* The text of one piece.
PieceText(pc) ==
    IF pc.kind = "text" THEN <<pc.name>>
    ELSE <<pc.name, "=", pc.q>> \o pc.value \o <<pc.q>>

RECURSIVE DocText(_)
DocText(pieces) ==
    IF pieces = <<>> THEN <<>>
    ELSE PieceText(Head(pieces)) \o DocText(Tail(pieces))

LinksInit ==
    /\ lDoc \in UNION {[1..n -> Pieces] : n \in 0..MaxPieces}
    /\ lPath \in DocumentPaths
    /\ lOut = [done |-> FALSE, html |-> <<>>]
    /\ ResolveIdle
    /\ EngineIdle

\* One call of fixLinks on the run's document.
RewriteLinks ==
    /\ ~lOut.done
    /\ lOut' = [done |-> TRUE, html |-> fixLinks(DocText(lDoc), lPath)]
    /\ UNCHANGED <<lDoc, lPath, resolveVars, engineVars>>

LinksNext ==
    RewriteLinks

SpecLinks ==
    LinksInit /\ [][LinksNext]_vars

\* A value the rewriter is to leave alone: an anchor or an absolute
\* http(s) URL, the scheme in any letter case.
IsSkipped(value) ==
    \/ startsWith(value, "#")
    \/ startsWith(toLowerCase(value), "http://")
    \/ startsWith(toLowerCase(value), "https://")

\* The value with everything from its first "?" removed.
WithoutQuery(value) ==
    IF indexOf(value, "?") = -1 THEN value
    ELSE SubSeq(value, 1, indexOf(value, "?"))

\* What C5 says becomes of one piece.
ClaimedPiece(pc, documentPath) ==
    IF pc.kind = "text" \/ IsSkipped(pc.value) THEN PieceText(pc)
    ELSE <<pc.name, "=", pc.q>>
            \o toSandboxUri(join(<<dirname(documentPath), Chars(WithoutQuery(pc.value))>>))
            \o <<pc.q>>

RECURSIVE ClaimedText(_, _)
ClaimedText(pieces, documentPath) ==
    IF pieces = <<>> THEN <<>>
    ELSE ClaimedPiece(Head(pieces), documentPath)
            \o ClaimedText(Tail(pieces), documentPath)

\* C5: every src=/href= attribute whose value does not start with "#",
\* "http://" or "https://" is replaced by name=quote, the sandbox URI of the
\* value (cut at its first "?") joined to the document's directory, and the
\* closing quote; everything else is kept.
C5_EveryRelativeLinkRewritten ==
    lOut.done => lOut.html = ClaimedText(lDoc, lPath)

\* C6: a document with no src/href attribute, or whose src/href values all
\* start with "#", "http://" or "https://", comes back identical.
C6_NothingToRewriteIsNoOp ==
    (lOut.done /\ \A i \in 1..Len(lDoc) :
                      lDoc[i].kind = "attr" => IsSkipped(lDoc[i].value))
        => lOut.html = DocText(lDoc)

\* No value holds a quote character of either kind.
QuoteFree(pieces) ==
    \A i \in 1..Len(pieces) : \A k \in 1..Len(pieces[i].value) :
        pieces[i].value[k] \notin Quotes

\* What holds of fixLinks on the documents whose attribute values hold no
\* quote character: there C5's description is exact.
FixLinksOnQuoteFreeValues ==
    (lOut.done /\ QuoteFree(lDoc)) => lOut.html = ClaimedText(lDoc, lPath)

=============================================================================
